---- MODULE Spec2Model ----
(***************************************************************************)
(* niriscript, src/ipc.rs: the Niri session.  connect() opens the event    *)
(* stream and drains the initial state dump into seen_windows              *)
(* (sync_initial_state); send_action() dispatches one command on a fresh   *)
(* connection; spawn() dispatches a Spawn action and then reads the event  *)
(* stream until a WindowOpenedOrChanged event names an unseen window with  *)
(* the requested app_id.                                                   *)
(*                                                                         *)
(* Every blocking read_line() call is one step of the model, so that the   *)
(* compositor (the peer of the event stream) can write or close between    *)
(* two reads.  Lines arrive whole; the bytes of a line are abstracted to   *)
(* what serde_json makes of them.                                          *)
(***************************************************************************)
EXTENDS Integers, Sequences, FiniteSets

\* ------------------------------------------------------------------ bounds
MaxId == 2
MaxEmit == 3
MaxPending == 2
MaxCalls == 2

\* ------------------------------------------------------------- JSON values
\* win.get("id") finds no key: None.
NoId == -2
\* A JSON number that as_u64() rejects (a negative number): None.
BadId == -1
\* spawn's loop found no match in the line it read.
NoMatch == -3
\* win.get("app_id") finds no key, or the value is no string: None.
NoApp == "<none>"

Ids == 1..MaxId
AppIds == {"X", "Y"}

NoFields == [id |-> NoId, app_id |-> NoApp]

\* {"WindowOpenedOrChanged": {"id": i, "app_id": a}}
Flat(i, a) ==
    [kind |-> "WindowOpenedOrChanged", hasWindow |-> FALSE,
     top |-> [id |-> i, app_id |-> a], window |-> NoFields, wins |-> <<>>]

\* {"WindowOpenedOrChanged": {"window": {"id": i, "app_id": a}}}
Nested(i, a) ==
    [kind |-> "WindowOpenedOrChanged", hasWindow |-> TRUE,
     top |-> NoFields, window |-> [id |-> i, app_id |-> a], wins |-> <<>>]

\* {"WindowsChanged": [{"id": ws[1]}, {"id": ws[2]}, ...]}; NoId is an entry
\* without an "id" key.
WindowsChanged(ws) ==
    [kind |-> "WindowsChanged", hasWindow |-> FALSE,
     top |-> NoFields, window |-> NoFields, wins |-> ws]

Plain(k) ==
    [kind |-> k, hasWindow |-> FALSE,
     top |-> NoFields, window |-> NoFields, wins |-> <<>>]

\* A line that is not JSON (noise, a truncated document).
Garbage == Plain("garbage")
\* A line of white space only ("\n").
Blank == Plain("blank")
\* Valid JSON of another event kind ({"WindowClosed": {"id": 1}}, ...).
OtherEvent == Plain("Other")

\* The lines the compositor writes in this model.
WindowLines ==
    {Flat(i, "X") : i \in Ids}
    \cup {Nested(1, "X"), Flat(1, "Y"), Flat(1, NoApp), Flat(BadId, "X")}

BulkLines ==
    {WindowsChanged(<<i>>) : i \in Ids}
    \cup {WindowsChanged(<<MaxId, NoId, BadId, 1, MaxId>>)}

Lines == WindowLines \cup BulkLines \cup {Garbage, Blank, OtherEvent}

\* The lines the compositor writes in a run that records its dispatches.
RecordedLines == {Flat(1, "X"), Flat(MaxId, "X"), WindowsChanged(<<1>>), Garbage}

\* ------------------------------------------------------------------- state
VARIABLES
    pc,            \* where the client is: start, bootstrap, idle, spawn_wait, panicked
    seen_windows,  \* Niri.seen_windows
    stream,        \* lines written by the compositor, not yet read by event_reader
    closed,        \* the compositor has closed the event stream
    emitted,       \* number of lines the compositor has written
    deadline,      \* the read timeout set on the event stream
    calls,         \* chained operations started on the session
    sent,          \* commands written by send_action
    app,           \* app.id of the spawn in progress (or of the last one)
    reg0,          \* seen_windows when the current spawn was called
    matched,       \* the id the last spawn returned on, or NoMatch
    credited,      \* ids that some spawn has returned on
    listed,        \* u64 ids listed by the WindowsChanged events the drain has read
    skippedSeen,   \* this spawn has read an event of its app for an already seen id
    lastRead,      \* the last read_line: none, timeout, eof, err, or the line's form
    existing,      \* ids of the windows the compositor has reported so far
    conns,         \* connections send_action has tried to open
    sawNoApp,      \* unseen ids this spawn has read an event without app_id for
    recording,     \* this run keeps the history below (and has few lines, RecordedLines)
    dispatched,    \* the last send_action call: its method, what it wrote and met
    stale,         \* lines written before the last dispatch and not yet read
    readStale,     \* the last line this spawn read was written before its dispatch
    passedOver     \* <<id, app_id>> of the events for unseen windows of another
                   \* application that spawn waits have read

waitLog == <<sawNoApp, stale, readStale, passedOver>>

vars == <<pc, seen_windows, stream, closed, emitted, deadline, calls, sent, app,
          reg0, matched, credited, listed, skippedSeen, lastRead, existing,
          conns, recording, dispatched, waitLog>>

session == <<pc, seen_windows, deadline, calls, sent, app, reg0, matched, credited,
             listed, skippedSeen, lastRead, conns, waitLog>>

\* No send_action call yet (or none recorded).
NoDispatch == [method |-> "none", action |-> "none", io |-> "none"]

\* A step without a send_action call.
Quiet == UNCHANGED <<recording, dispatched>>

\* ---------------------------------------------------------------- decoding
\* serde_json::from_str::<Value>(&line) is Ok.
FromStrOk(line) == line.kind \notin {"garbage", "blank"}

\* A drain that no line of white space ends.
TrimIsEmpty_never(line) == FALSE

\* line.trim().is_empty()
TrimIsEmpty(line) == line.kind = "blank"

\* json.get(key) is Some: the document is an object with that key.
JsonGet(line, key) == FromStrOk(line) /\ line.kind = key

\* v.as_u64() is Some.
AsU64(v) == v >= 0

\* A drain that gives up on the array at its first entry.
InsertWindows_first(seen, ws) ==
    IF ws = <<>> THEN seen
    ELSE IF AsU64(Head(ws)) THEN seen \cup {Head(ws)} ELSE seen

\* for w in windows { if let Some(id) = w.get("id").and_then(as_u64) { insert } }
RECURSIVE InsertWindows(_, _)
InsertWindows(seen, ws) ==
    IF ws = <<>> THEN seen
    ELSE InsertWindows(IF AsU64(Head(ws)) THEN seen \cup {Head(ws)} ELSE seen,
                       Tail(ws))

\* A drain that keeps the last snapshot only.
SyncLine_replace(seen, line) ==
    IF JsonGet(line, "WindowsChanged") THEN InsertWindows({}, line.wins) ELSE seen

\* A drain that also records the windows of WindowOpenedOrChanged events.
SyncLine_alsoOpened(seen, line) ==
    IF JsonGet(line, "WindowsChanged") THEN InsertWindows(seen, line.wins)
    ELSE IF JsonGet(line, "WindowOpenedOrChanged")
    THEN seen \cup ({line.top.id, line.window.id} \cap Nat)
    ELSE seen

\* The body of sync_initial_state's loop for one line.
SyncLine(seen, line) ==
    IF JsonGet(line, "WindowsChanged") THEN InsertWindows(seen, line.wins) ELSE seen

\* A loop that reads the fields at the top level only.
UnwrapWindow_flatOnly(line) == line.top

\* wrapper.get("window").unwrap_or(wrapper)
UnwrapWindow(line) == IF line.hasWindow THEN line.window ELSE line.top

\* A loop without the already-seen check.
AlreadySeen_never(seen, id) == FALSE

\* self.seen_windows.contains(&id)
AlreadySeen(seen, id) == id \in seen

\* A loop that returns on the first unseen window, whatever its app_id.
SpawnMatch_anyApp(seen, appId, line) ==
    IF ~JsonGet(line, "WindowOpenedOrChanged") THEN NoMatch
    ELSE LET win == UnwrapWindow(line) IN
         IF ~AsU64(win.id) THEN NoMatch
         ELSE IF AlreadySeen(seen, win.id) THEN NoMatch
         ELSE win.id

\* The id spawn's loop returns on for one decoded line, or NoMatch.
SpawnMatch(seen, appId, line) ==
    IF ~JsonGet(line, "WindowOpenedOrChanged") THEN NoMatch
    ELSE LET win == UnwrapWindow(line) IN
         IF ~AsU64(win.id) THEN NoMatch
         ELSE IF AlreadySeen(seen, win.id) THEN NoMatch
         ELSE IF win.app_id # NoApp /\ win.app_id = appId THEN win.id
         ELSE NoMatch

\* A match that is not recorded.
Commit_forget(seen, id) == seen

\* self.seen_windows.insert(id)
Commit(seen, id) == seen \cup {id}

\* A loop that gives up on a line that is not JSON.
SpawnStep_breakOnParseError(seen, appId, line) ==
    IF ~FromStrOk(line)
    THEN [next |-> "break", id |-> NoMatch, seen |-> seen]
    ELSE LET m == SpawnMatch(seen, appId, line) IN
         IF m # NoMatch
         THEN [next |-> "return", id |-> m, seen |-> seen \cup {m}]
         ELSE [next |-> "continue", id |-> NoMatch, seen |-> seen]

\* A loop that marks every unseen window it reads about, matched or not.
SpawnStep_markUnidentified(seen, appId, line) ==
    IF ~FromStrOk(line)
    THEN [next |-> "continue", id |-> NoMatch, seen |-> seen]
    ELSE LET m == SpawnMatch(seen, appId, line) IN
         IF m # NoMatch
         THEN [next |-> "return", id |-> m, seen |-> Commit(seen, m)]
         ELSE [next |-> "continue", id |-> NoMatch,
               seen |-> IF JsonGet(line, "WindowOpenedOrChanged")
                           /\ AsU64(UnwrapWindow(line).id)
                        THEN seen \cup {UnwrapWindow(line).id}
                        ELSE seen]

\* A loop that takes the snapshots it reads into the Registry, as the drain does.
SpawnStep_syncBulk(seen, appId, line) ==
    IF ~FromStrOk(line)
    THEN [next |-> "continue", id |-> NoMatch, seen |-> seen]
    ELSE LET m == SpawnMatch(seen, appId, line) IN
         IF m # NoMatch
         THEN [next |-> "return", id |-> m, seen |-> Commit(seen, m)]
         ELSE [next |-> "continue", id |-> NoMatch, seen |-> SyncLine(seen, line)]

\* A loop that marks the windows of other applications it reads about.
SpawnStep_markOtherApp(seen, appId, line) ==
    IF ~FromStrOk(line)
    THEN [next |-> "continue", id |-> NoMatch, seen |-> seen]
    ELSE LET m == SpawnMatch(seen, appId, line) IN
         IF m # NoMatch
         THEN [next |-> "return", id |-> m, seen |-> Commit(seen, m)]
         ELSE [next |-> "continue", id |-> NoMatch,
               seen |-> IF /\ JsonGet(line, "WindowOpenedOrChanged")
                           /\ AsU64(UnwrapWindow(line).id)
                           /\ UnwrapWindow(line).app_id # NoApp
                        THEN seen \cup {UnwrapWindow(line).id}
                        ELSE seen]

\* The body of spawn's loop for one line read: what the loop does next
\* (continue, or return self), the id matched and seen_windows afterwards.
SpawnStep(seen, appId, line) ==
    IF ~FromStrOk(line)
    THEN [next |-> "continue", id |-> NoMatch, seen |-> seen]
    ELSE LET m == SpawnMatch(seen, appId, line) IN
         IF m # NoMatch
         THEN [next |-> "return", id |-> m, seen |-> Commit(seen, m)]
         ELSE [next |-> "continue", id |-> NoMatch, seen |-> seen]

\* The ids of the windows a line reports (the compositor's side).
Reported(line) ==
    IF line.kind = "WindowsChanged"
    THEN {line.wins[k] : k \in DOMAIN line.wins} \cap Ids
    ELSE IF line.kind = "WindowOpenedOrChanged"
    THEN {line.top.id, line.window.id} \cap Ids
    ELSE {}

\* ------------------------------------------------------- what a line says
\* The id and app_id an event carries, wherever the payload holds them.
EventId(line) == IF line.hasWindow THEN line.window.id ELSE line.top.id

EventApp(line) == IF line.hasWindow THEN line.window.app_id ELSE line.top.app_id

\* The u64 ids a WindowsChanged event lists.
Listed(line) ==
    IF line.kind = "WindowsChanged"
    THEN {line.wins[k] : k \in DOMAIN line.wins} \cap Nat
    ELSE {}

\* A WindowOpenedOrChanged event of application a for an id in reg.
SeenOfApp(line, reg, a) ==
    /\ line.kind = "WindowOpenedOrChanged"
    /\ EventId(line) \in reg
    /\ EventApp(line) = a

\* The unseen u64 id of a WindowOpenedOrChanged event that has no app_id.
UnseenNoApp(line, reg) ==
    IF /\ line.kind = "WindowOpenedOrChanged"
       /\ EventId(line) \in Nat
       /\ EventId(line) \notin reg
       /\ EventApp(line) = NoApp
    THEN {EventId(line)}
    ELSE {}

\* <<id, app_id>> of a WindowOpenedOrChanged event for an unseen u64 id whose
\* app_id is there and is not a.
OtherApp(line, reg, a) ==
    IF /\ line.kind = "WindowOpenedOrChanged"
       /\ EventId(line) \in Nat
       /\ EventId(line) \notin reg
       /\ EventApp(line) \notin {NoApp, a}
    THEN {<<EventId(line), EventApp(line)>>}
    ELSE {}

\* The form of a line: its event kind, and where a window event holds its fields.
Form(line) ==
    IF line.kind = "WindowOpenedOrChanged"
    THEN (IF line.hasWindow THEN "nested" ELSE "flat")
    ELSE line.kind

\* -------------------------------------------------------------------- init
InitSession ==
    /\ pc = "start"
    /\ seen_windows = {}
    /\ stream = <<>>
    /\ closed = FALSE
    /\ emitted = 0
    /\ deadline = "unset"
    /\ calls = 0
    /\ sent = 0
    /\ app = NoApp
    /\ reg0 = {}
    /\ matched = NoMatch
    /\ credited = {}
    /\ listed = {}
    /\ skippedSeen = FALSE
    /\ lastRead = "none"
    /\ existing = {}
    /\ conns = 0
    /\ dispatched = NoDispatch
    /\ sawNoApp = {}
    /\ stale = 0
    /\ readStale = FALSE
    /\ passedOver = {}

Init == InitSession /\ recording = FALSE

InitRecorded == InitSession /\ recording = TRUE

\* -------------------------------------------------------------- compositor
\* The compositor writes one line on the event stream.
Emit ==
    /\ pc \notin {"start", "panicked"}
    /\ ~closed
    /\ emitted < MaxEmit
    /\ Len(stream) < MaxPending
    /\ \E line \in (IF recording THEN RecordedLines ELSE Lines) :
          /\ stream' = Append(stream, line)
          /\ existing' = existing \cup Reported(line)
    /\ emitted' = emitted + 1
    /\ Quiet
    /\ UNCHANGED <<closed, session>>

\* The compositor closes the event stream.
Close ==
    /\ pc \notin {"start", "panicked"}
    /\ ~closed
    /\ closed' = TRUE
    /\ Quiet
    /\ UNCHANGED <<stream, emitted, existing, session>>

\* ----------------------------------------------------------------- connect
\* connect's argument: None, or Some(duration).
TimeoutArgs == {"None", "50ms", "10s"}

\* timeout.unwrap_or(Duration::from_secs(3))
ConnectDeadline(t) == IF t = "None" THEN "3s" ELSE t

\* sync_initial_state's set_read_timeout(Some(100 ms)) replaces the deadline d.
SyncDeadline(d) == "100ms"

\* connect() up to the first read of sync_initial_state: the socket is opened,
\* the handshake written, the read timeout set to 100 ms.
Connect ==
    /\ pc = "start"
    /\ pc' = "bootstrap"
    /\ \E t \in TimeoutArgs : deadline' = SyncDeadline(ConnectDeadline(t))
    /\ seen_windows' = {}
    /\ Quiet
    /\ UNCHANGED <<stream, closed, emitted, existing, calls, sent, app, reg0,
                   matched, credited, listed, skippedSeen, lastRead, conns,
                   waitLog>>

\* NIRI_SOCKET is unset or the connection fails: expect() panics.
ConnectFail ==
    /\ pc = "start"
    /\ pc' = "panicked"
    /\ Quiet
    /\ UNCHANGED <<seen_windows, stream, closed, emitted, existing, deadline, calls,
                   sent, app, reg0, matched, credited, listed, skippedSeen, lastRead,
                   conns, waitLog>>

\* A drain that leaves its 100 ms deadline on the stream.
EndDrain_keepDeadline ==
    /\ pc' = "idle"
    /\ deadline' = deadline

\* The drain is over: set_read_timeout(None), connect returns the session.
EndDrain ==
    /\ pc' = "idle"
    /\ deadline' = "none"

\* read_line returns a line.  A line of white space ends the drain; any other
\* line is decoded and the loop goes on.
BootstrapRead ==
    /\ pc = "bootstrap"
    /\ stream # <<>>
    /\ LET line == Head(stream) IN
          /\ stream' = Tail(stream)
          /\ listed' = listed \cup Listed(line)
          /\ lastRead' = Form(line)
          /\ IF TrimIsEmpty(line)
             THEN EndDrain /\ UNCHANGED seen_windows
             ELSE /\ seen_windows' = SyncLine(seen_windows, line)
                  /\ UNCHANGED <<pc, deadline>>
    /\ Quiet
    /\ UNCHANGED <<closed, emitted, existing, calls, sent, app, reg0, matched,
                   credited, skippedSeen, conns, waitLog>>

\* No line arrives within the deadline: read_line is Err, the drain ends.
BootstrapTimeout ==
    /\ pc = "bootstrap"
    /\ stream = <<>>
    /\ ~closed
    /\ lastRead' = "timeout"
    /\ EndDrain
    /\ Quiet
    /\ UNCHANGED <<seen_windows, stream, closed, emitted, existing, calls, sent, app,
                   reg0, matched, credited, listed, skippedSeen, conns,
                   waitLog>>

\* End of stream: read_line is Ok(0), line is empty, the drain ends.
BootstrapEof ==
    /\ pc = "bootstrap"
    /\ stream = <<>>
    /\ closed
    /\ lastRead' = "eof"
    /\ EndDrain
    /\ Quiet
    /\ UNCHANGED <<seen_windows, stream, closed, emitted, existing, calls, sent, app,
                   reg0, matched, credited, listed, skippedSeen, conns,
                   waitLog>>

\* The read fails for another reason (an I/O error): the drain ends.
BootstrapReadErr ==
    /\ pc = "bootstrap"
    /\ lastRead' = "err"
    /\ EndDrain
    /\ Quiet
    /\ UNCHANGED <<seen_windows, stream, closed, emitted, existing, calls, sent, app,
                   reg0, matched, credited, listed, skippedSeen, conns,
                   waitLog>>

\* ---------------------------------------------------------------- dispatch
\* What send_action meets: the connection fails or a write fails (unwrap
\* panics), the response read fails (ignored), or all goes well.
DispatchOutcomes == {"ok", "connect_failed", "write_failed", "response_failed"}

\* A dispatch that ignores every failure.
DispatchPanics_never(io) == FALSE

\* A dispatch that unwraps the response read too.
DispatchPanics_strict(io) == io # "ok"

DispatchPanics(io) == io \in {"connect_failed", "write_failed"}

\* A dispatch that writes the command again when the write failed.
DispatchSent_retry(io) ==
    IF io = "connect_failed" THEN 0 ELSE IF io = "write_failed" THEN 2 ELSE 1

\* The command was written (once) unless the connection failed.
DispatchSent(io) == IF io = "connect_failed" THEN 0 ELSE 1

\* UnixStream::connect(&self.socket_path): one attempt per send_action.
DispatchConns(io) == 1

\* The chained methods of the model and the action each hands to send_action.
FireAndForgetMethods == {"spawn_args", "foc_l"}

ActionOf(method) ==
    CASE method = "spawn" -> "Spawn"
      [] method = "spawn_args" -> "Spawn"
      [] method = "foc_l" -> "FocusColumnLeft"

\* A dispatch that reads its response from the event stream.
PendingAfterDispatch_readOne(s) == IF s = <<>> THEN s ELSE Tail(s)

\* A dispatch that empties the event stream before it sends.
PendingAfterDispatch_flush(s) == <<>>

\* send_action talks on its own connection: the lines pending on the event
\* stream stay as they are.
PendingAfterDispatch(s) == s

\* send_action(json) called by method, meeting io.
SendAction(method, io) ==
    /\ conns' = conns + DispatchConns(io)
    /\ sent' = sent + DispatchSent(io)
    /\ dispatched' = IF recording
                     THEN [method |-> method,
                           action |-> IF DispatchSent(io) = 0 THEN "none"
                                      ELSE ActionOf(method),
                           io |-> io]
                     ELSE NoDispatch
    /\ UNCHANGED recording
    /\ stream' = PendingAfterDispatch(stream)
    /\ stale' = IF recording THEN Len(stream') ELSE 0

\* spawn_args, sh, quit, reload_config and every focus/move/resize verb:
\* send_action, then return self.
FireAndForget ==
    /\ pc = "idle"
    /\ calls < MaxCalls
    /\ calls' = calls + 1
    /\ \E method \in FireAndForgetMethods : \E io \in DispatchOutcomes :
          /\ SendAction(method, io)
          /\ pc' = IF DispatchPanics(io) THEN "panicked" ELSE "idle"
    /\ UNCHANGED <<seen_windows, closed, emitted, existing, deadline, app,
                   reg0, matched, credited, listed, skippedSeen, lastRead,
                   sawNoApp, readStale, passedOver>>

\* -------------------------------------------------------------------- spawn
\* spawn(app) up to its first read: the Spawn action is dispatched.
SpawnDispatch ==
    /\ pc = "idle"
    /\ calls < MaxCalls
    /\ calls' = calls + 1
    /\ \E a \in AppIds : app' = a
    /\ \E io \in DispatchOutcomes :
          /\ SendAction("spawn", io)
          /\ pc' = IF DispatchPanics(io) THEN "panicked" ELSE "spawn_wait"
    /\ reg0' = seen_windows
    /\ matched' = NoMatch
    /\ skippedSeen' = FALSE
    /\ lastRead' = "none"
    /\ sawNoApp' = {}
    /\ readStale' = FALSE
    /\ UNCHANGED <<seen_windows, closed, emitted, existing, deadline,
                   credited, listed, passedOver>>

\* read_line returns a line: on a match the id is inserted and spawn returns,
\* on anything else the loop goes on.
SpawnRead ==
    /\ pc = "spawn_wait"
    /\ stream # <<>>
    /\ LET line == Head(stream)
           r == SpawnStep(seen_windows, app, line)
       IN /\ stream' = Tail(stream)
          /\ skippedSeen' = (skippedSeen \/ SeenOfApp(line, seen_windows, app))
          /\ lastRead' = Form(line)
          /\ matched' = r.id
          /\ seen_windows' = r.seen
          /\ credited' = IF r.id # NoMatch THEN credited \cup {r.id} ELSE credited
          /\ pc' = IF r.next = "continue" THEN "spawn_wait" ELSE "idle"
          /\ sawNoApp' = sawNoApp \cup UnseenNoApp(line, seen_windows)
    /\ stale' = IF stale > 0 THEN stale - 1 ELSE 0
    /\ readStale' = (stale > 0)
    /\ passedOver' = IF recording
                     THEN passedOver \cup OtherApp(Head(stream), seen_windows, app)
                     ELSE {}
    /\ Quiet
    /\ UNCHANGED <<closed, emitted, existing, deadline, calls, sent, app, reg0,
                   listed, conns>>

\* End of stream: read_line is Ok(0) and leaves line empty, which is not JSON:
\* continue.
SpawnEof ==
    /\ pc = "spawn_wait"
    /\ stream = <<>>
    /\ closed
    /\ lastRead' = "eof"
    /\ Quiet
    /\ UNCHANGED <<pc, seen_windows, stream, closed, emitted, existing, deadline,
                   calls, sent, app, reg0, matched, credited, listed, skippedSeen,
                   conns, waitLog>>

\* The ways read_line can be Err: an I/O error at any time, and the deadline d
\* running out when one is set and nothing is there to read.
ReadFailures(d, s, eof) ==
    IF d # "none" /\ s = <<>> /\ ~eof THEN {"err", "timeout"} ELSE {"err"}

\* A loop that unwraps the read: a failed read panics.
SpawnReadErr_unwrap ==
    /\ pc = "spawn_wait"
    /\ \E cause \in ReadFailures(deadline, stream, closed) : lastRead' = cause
    /\ pc' = "panicked"
    /\ Quiet
    /\ UNCHANGED <<seen_windows, stream, closed, emitted, existing, deadline, calls,
                   sent, app, reg0, matched, credited, listed, skippedSeen,
                   conns, waitLog>>

\* read_line is Err: break, spawn returns the session.
SpawnReadErr ==
    /\ pc = "spawn_wait"
    /\ \E cause \in ReadFailures(deadline, stream, closed) : lastRead' = cause
    /\ pc' = "idle"
    /\ Quiet
    /\ UNCHANGED <<seen_windows, stream, closed, emitted, existing, deadline, calls,
                   sent, app, reg0, matched, credited, listed, skippedSeen,
                   conns, waitLog>>

\* ------------------------------------------------------------ specification
Next ==
    \/ Emit
    \/ Close
    \/ Connect
    \/ ConnectFail
    \/ BootstrapRead
    \/ BootstrapTimeout
    \/ BootstrapEof
    \/ BootstrapReadErr
    \/ FireAndForget
    \/ SpawnDispatch
    \/ SpawnRead
    \/ SpawnEof
    \/ SpawnReadErr

Spec == Init /\ [][Next]_vars

\* The same program in a run that records its dispatches.
SpecRecorded == InitRecorded /\ [][Next]_vars

TypeOK ==
    /\ pc \in {"start", "bootstrap", "idle", "spawn_wait", "panicked"}
    /\ seen_windows \subseteq Ids
    /\ emitted \in 0..MaxEmit
    /\ calls \in 0..MaxCalls

\* ------------------------------------------------------------------ claims
\* A step that takes lines off the event stream.
ReadsLine == Len(stream') < Len(stream)

\* The line is no JSON document (noise, a truncated document, white space).
NotJson(line) == line.kind \in {"garbage", "blank"}

\* The line is a WindowOpenedOrChanged event for a u64 id outside reg whose
\* app_id is a.
Candidate(line, reg, a) ==
    /\ line.kind = "WindowOpenedOrChanged"
    /\ EventId(line) \in Nat
    /\ EventId(line) \notin reg
    /\ EventApp(line) = a

\* C1: during a spawn wait, reading a WindowOpenedOrChanged event whose id is
\* already in the Registry never ends the wait and never is the match, whatever
\* its app_id; the id a spawn returns on was not in the Registry when the spawn
\* was called.
C1_SeenIdNeverMatches ==
    [][/\ (/\ pc = "spawn_wait"
           /\ ReadsLine
           /\ Head(stream).kind = "WindowOpenedOrChanged"
           /\ EventId(Head(stream)) \in seen_windows)
          => (/\ pc' = "spawn_wait"
              /\ matched' = NoMatch
              /\ seen_windows' = seen_windows)
       /\ (matched' # NoMatch => matched' \notin reg0')]_vars

\* A spawn has skipped an event of its own app for a window of the Registry and
\* then returned on another, unseen window.
C1_Witness ==
    /\ pc = "idle"
    /\ skippedSeen
    /\ matched \in Ids
    /\ matched \notin reg0
    /\ reg0 # {}

\* C2: spawn returns at the first line that is a WindowOpenedOrChanged event
\* with an id outside the Registry and app_id = app.id: every line read before
\* leaves the wait and the Registry as they were, the return leaves the Registry
\* as it was at the call plus that id, and only that line has left the stream.
C2_ReturnsAtFirstMatch ==
    [][pc = "spawn_wait" =>
         /\ ReadsLine =>
              /\ stream' = Tail(stream)
              /\ IF Candidate(Head(stream), reg0, app)
                 THEN /\ pc' = "idle"
                      /\ matched' = EventId(Head(stream))
                      /\ seen_windows' = reg0 \cup {EventId(Head(stream))}
                 ELSE /\ pc' = "spawn_wait"
                      /\ matched' = NoMatch
                      /\ seen_windows' = reg0
         /\ (pc' = "idle" /\ matched' # NoMatch) =>
              /\ stream # <<>>
              /\ Candidate(Head(stream), reg0, app)
              /\ stream' = Tail(stream)]_vars

\* A spawn called with a non-empty Registry has returned on a match while a
\* later line is still on the stream.
C2_Witness ==
    /\ pc = "idle"
    /\ matched \in Ids
    /\ reg0 # {}
    /\ seen_windows = reg0 \cup {matched}
    /\ stream # <<>>

\* C3: when a read of the spawn wait meets the end of the stream, the wait is
\* over: spawn is not still waiting after that read.
C3_EofEndsWait == lastRead = "eof" => pc # "spawn_wait"

\* C4: a failed read during the spawn wait does not panic; spawn returns the
\* session (the next chained operation can run) with the Registry as it was
\* when spawn was called.
C4_ReadErrorReturnsSession ==
    [][(pc = "spawn_wait" /\ lastRead' = "err")
         => (/\ pc' = "idle"
             /\ seen_windows' = reg0
             /\ matched' = NoMatch
             /\ stream' = stream)]_vars

\* A spawn called with a non-empty Registry has returned on a failed read.
C4_Witness ==
    /\ pc = "idle"
    /\ lastRead = "err"
    /\ app # NoApp
    /\ reg0 # {}
    /\ seen_windows = reg0

\* C5: at the moment a spawn is issued, the Registry holds the id of every
\* window the compositor has reported so far.
C5_RegistryCoversExisting ==
    [][(pc = "idle" /\ pc' = "spawn_wait") => existing \subseteq seen_windows]_vars

\* C6: when connect returns, the Registry is the union of the u64 ids listed by
\* the WindowsChanged events the drain has read, in whatever order and however
\* often they were listed.
C6_BootstrapIsUnion ==
    (pc \in {"bootstrap", "idle"} /\ calls = 0) => seen_windows = listed

\* connect has returned after reading WindowsChanged events that list several
\* ids.
C6_Witness ==
    /\ pc = "idle"
    /\ calls = 0
    /\ Cardinality(listed) > 1
    /\ seen_windows = listed
    /\ lastRead = "timeout"

\* C7: an id a spawn has returned on stays in the Registry, and a spawn never
\* returns on an id an earlier spawn has returned on.
C7_NoDoubleCredit ==
    [][/\ credited' \subseteq seen_windows'
       /\ (pc = "spawn_wait" /\ matched' # NoMatch)
            => (matched' \notin credited /\ matched' \in credited')]_vars

\* Two spawns have returned on two ids, the second after skipping an event for
\* the id of the first.
C7_Witness ==
    /\ Cardinality(credited) > 1
    /\ skippedSeen
    /\ listed = {}
    /\ pc = "idle"

\* C8: whatever the Registry and the requested app.id, an event with id and
\* app_id at the top level and one with the same id and app_id under "window"
\* have the same outcome and leave the same Registry.
C8_FlatNestedSame ==
    pc = "spawn_wait" =>
        \A i \in Ids \cup {NoId, BadId} : \A a \in AppIds \cup {NoApp} :
            SpawnStep(seen_windows, app, Flat(i, a))
                = SpawnStep(seen_windows, app, Nested(i, a))

\* A spawn has returned on an event that holds its fields under "window".
C8_Witness ==
    /\ pc = "idle"
    /\ lastRead = "nested"
    /\ matched \in Ids
    /\ seen_windows = reg0 \cup {matched}

\* C9: in the spawn wait, reading a line that is not JSON does not end the
\* loop and changes neither the Registry nor the match: the wait goes on as if
\* the line had not been there.
C9_GarbageSkipped ==
    [][(pc = "spawn_wait" /\ ReadsLine /\ NotJson(Head(stream)))
         => (/\ pc' = "spawn_wait"
             /\ stream' = Tail(stream)
             /\ seen_windows' = seen_windows
             /\ matched' = matched
             /\ credited' = credited)]_vars

\* A spawn is still waiting after reading a line that is not JSON.
C9_Witness ==
    /\ pc = "spawn_wait"
    /\ lastRead \in {"garbage", "blank"}

\* C10: in the bootstrap drain, reading a line that is not JSON (white space
\* included) does not end the drain and does not change the Registry.
C10_DrainSkipsUnparsable ==
    [][(pc = "bootstrap" /\ ReadsLine /\ NotJson(Head(stream)))
         => (pc' = "bootstrap" /\ seen_windows' = seen_windows)]_vars
\* C11: the Registry never shrinks: no step of connect, of a spawn or of a
\* command verb removes an id, so every id once in the Registry is in it in
\* every later state.
C11_RegistryNeverShrinks == [][seen_windows \subseteq seen_windows']_vars

\* The drain has added ids, a spawn has added another, and the last call of
\* the chain has been made: all of them are still there.
C11_Witness ==
    /\ pc = "idle"
    /\ calls = MaxCalls
    /\ credited # {}
    /\ listed # {}
    /\ seen_windows = listed \cup credited
    /\ credited \cap listed = {}

\* A step that is a call of a fire-and-forget method.
FireAndForgetCall ==
    /\ calls' = calls + 1
    /\ dispatched'.method \in FireAndForgetMethods

\* C12: a fire-and-forget call leaves the Registry as it was and reads nothing
\* from the event stream: the lines pending before the call are pending after
\* it, in the same order; it neither waits nor matches.
C12_FireAndForgetFrame ==
    [][FireAndForgetCall =>
         /\ seen_windows' = seen_windows
         /\ stream' = stream
         /\ pc' \in {"idle", "panicked"}
         /\ UNCHANGED <<matched, credited, listed>>]_vars

\* A fire-and-forget call has returned with a non-empty Registry while lines
\* written before it are still pending.
C12_Witness ==
    /\ pc = "idle"
    /\ dispatched.method \in FireAndForgetMethods
    /\ dispatched.io = "ok"
    /\ stale > 0
    /\ Len(stream) >= stale
    /\ seen_windows # {}

\* The dispatch just made failed at the connection or at the write.
DispatchFailed == dispatched.io \in {"connect_failed", "write_failed"}

\* C13: a call makes one connection attempt and writes its command at most
\* once (not at all when the connection failed); when the connection or the
\* write fails the chain is over: no later call is made, nothing is sent or
\* read again and the Session is left as it was.
C13_FailedDispatchAbortsChain ==
    [][/\ calls' = calls + 1 =>
            /\ conns' = conns + 1
            /\ sent' - sent \in {0, 1}
            /\ dispatched'.io = "connect_failed" => sent' = sent
            /\ DispatchFailed' => pc' = "panicked"
       /\ pc = "panicked" =>
            /\ UNCHANGED <<pc, calls, conns, sent, seen_windows, dispatched>>
            /\ ~ReadsLine]_vars

\* A call has failed at its write while the chain had calls left: one
\* connection per call was made and the chain is over.
C13_Witness ==
    /\ pc = "panicked"
    /\ dispatched.io = "write_failed"
    /\ calls < MaxCalls
    /\ conns = calls
    /\ sent = calls

\* C14: during a spawn wait, an event for an unseen id that carries no app_id
\* is no match and leaves the Registry as it was; the ids so read about stay
\* outside the Registry while the wait lasts, and a later event for one of them
\* with app_id = app.id is the match of this spawn.
C14_IdentityMayComeLater ==
    [][(pc = "spawn_wait" /\ ReadsLine) =>
         /\ UnseenNoApp(Head(stream), seen_windows) # {} =>
              /\ pc' = "spawn_wait"
              /\ matched' = NoMatch
              /\ seen_windows' = seen_windows
         /\ pc' = "spawn_wait" => sawNoApp' \cap seen_windows' = {}
         /\ (/\ EventId(Head(stream)) \in sawNoApp
             /\ Head(stream).kind = "WindowOpenedOrChanged"
             /\ EventApp(Head(stream)) = app) =>
              /\ pc' = "idle"
              /\ matched' = EventId(Head(stream))
              /\ seen_windows' = seen_windows \cup {EventId(Head(stream))}]_vars

\* A spawn has returned on a window it had first read about without app_id.
C14_Witness ==
    /\ pc = "idle"
    /\ matched \in Ids
    /\ matched \in sawNoApp
    /\ matched \in seen_windows

\* C15: once connect has returned the event stream has no read deadline,
\* whatever timeout connect was given; a read of a spawn never fails for time
\* running out, and a spawn returns only with a match or after a failed read.
C15_NoDeadlineAfterConnect ==
    [][/\ pc' \in {"idle", "spawn_wait"} => deadline' = "none"
       /\ pc = "spawn_wait" =>
            /\ lastRead' # "timeout"
            /\ pc' # "spawn_wait" =>
                 /\ pc' = "idle"
                 /\ matched' # NoMatch \/ lastRead' = "err"]_vars

\* A spawn is waiting on an open stream with nothing to read and no deadline,
\* after the drain has ended on its own deadline.
C15_Witness ==
    /\ pc = "spawn_wait"
    /\ stream = <<>>
    /\ ~closed
    /\ deadline = "none"
    /\ matched = NoMatch
    /\ lastRead # "none"

\* C16: in every reachable state each id of the Registry was listed in a
\* WindowsChanged event read by the bootstrap drain or was the match a spawn
\* returned on.
C16_RegistryProvenance == seen_windows \subseteq listed \cup credited

\* The Registry holds ids of both origins: some listed during the drain, and
\* the match of a spawn that no snapshot listed.
C16_Witness ==
    /\ pc = "idle"
    /\ listed # {}
    /\ listed \subseteq seen_windows
    /\ matched \in credited
    /\ matched \notin listed
    /\ matched \in seen_windows
    /\ lastRead \in {"flat", "nested"}

\* C17: during a spawn wait, a decoded event that is not the match (another
\* event kind, WindowsChanged included, a WindowOpenedOrChanged without a u64
\* id, or one for an unseen id of another application) is no error: the loop
\* goes on to the next line and the Registry is as it was.
C17_OtherEventsPassBy ==
    [][(/\ pc = "spawn_wait"
        /\ ReadsLine
        /\ ~NotJson(Head(stream))
        /\ ~Candidate(Head(stream), seen_windows, app))
       => (/\ pc' = "spawn_wait"
           /\ matched' = NoMatch
           /\ seen_windows' = seen_windows
           /\ stream' = Tail(stream))]_vars

\* A spawn called with an empty Registry has read a WindowsChanged event, which
\* lists windows, and goes on waiting with the Registry still empty.
C17_Witness ==
    /\ pc = "spawn_wait"
    /\ lastRead = "WindowsChanged"
    /\ matched = NoMatch
    /\ reg0 = {}
    /\ seen_windows = {}

\* A step that is a call of spawn, up to its first read.
SpawnCall ==
    /\ calls' = calls + 1
    /\ dispatched'.method = "spawn"

\* C18: a call of spawn opens one fresh connection and, before any line is read
\* from the event stream, writes one Spawn action on it; the wait is entered only
\* that way and nothing more is dispatched while it lasts.  When the dispatch
\* fails no line is read, then or later, and the Registry is as it was.
C18_SpawnDispatchesOnceFirst ==
    [][/\ SpawnCall =>
            /\ conns' = conns + 1
            /\ stream' = stream
            /\ seen_windows' = seen_windows
            /\ pc' \in {"spawn_wait", "panicked"}
            /\ pc' = "spawn_wait" =>
                 /\ sent' = sent + 1
                 /\ dispatched'.action = "Spawn"
                 /\ ~DispatchFailed'
            /\ DispatchFailed' => pc' = "panicked"
       /\ (pc # "spawn_wait" /\ pc' = "spawn_wait") => SpawnCall
       /\ pc = "spawn_wait" => UNCHANGED <<calls, conns, sent, dispatched>>
       /\ pc = "panicked" => (~ReadsLine /\ seen_windows' = seen_windows)]_vars

\* spawn has written its Spawn action on the connection of this call and
\* waits, having read none of the lines that were pending at the call.
C18_Witness ==
    /\ pc = "spawn_wait"
    /\ dispatched = [method |-> "spawn", action |-> "Spawn", io |-> "ok"]
    /\ lastRead = "none"
    /\ stale > 0
    /\ conns = calls
    /\ sent = calls

\* C19: when the read of the response fails after the command was written,
\* the call goes on as it does when the read succeeds: the command counts as
\* sent, a verb returns the session, spawn enters its wait, and the Registry
\* and the event stream are as they were.
C19_ResponseFailureIgnored ==
    [][(calls' = calls + 1 /\ dispatched'.io = "response_failed") =>
         /\ pc' = IF dispatched'.method = "spawn" THEN "spawn_wait" ELSE "idle"
         /\ sent' = sent + 1
         /\ dispatched'.action = ActionOf(dispatched'.method)
         /\ seen_windows' = seen_windows
         /\ stream' = stream
         /\ UNCHANGED <<deadline, credited, listed>>]_vars

\* The response read of a spawn's dispatch failed; the spawn went on to wait
\* and has returned on a match.
C19_Witness ==
    /\ pc = "idle"
    /\ dispatched.method = "spawn"
    /\ dispatched.io = "response_failed"
    /\ matched \in Ids
    /\ matched \in seen_windows
    /\ lastRead \in {"flat", "nested"}

\* C20: the lines written before a call of spawn are not discarded: a dispatch
\* leaves the event stream as it is, nothing is read between calls, new lines
\* queue up behind the pending ones and every read takes the oldest line.  So
\* the lines pending at the dispatch are the first this spawn reads, and one of
\* them that is an event for an unseen id with app_id = app.id is the match.
C20_EarlierEventsAreRead ==
    [][/\ calls' = calls + 1 => stream' = stream
       /\ pc = "idle" => ~ReadsLine
       /\ ReadsLine => stream' = Tail(stream)
       /\ Len(stream') > Len(stream) =>
            SubSeq(stream', 1, Len(stream)) = stream
       /\ pc' \in {"idle", "spawn_wait"} => stale' <= Len(stream')
       /\ (/\ pc = "spawn_wait"
           /\ ReadsLine
           /\ stale > 0
           /\ Candidate(Head(stream), seen_windows, app))
          => (/\ pc' = "idle"
              /\ readStale'
              /\ matched' = EventId(Head(stream)))]_vars

\* A spawn has returned on an event that was written before its Spawn action
\* was dispatched.
C20_Witness ==
    /\ pc = "idle"
    /\ dispatched.method = "spawn"
    /\ readStale
    /\ matched \in Ids
    /\ matched \in seen_windows

\* C21: during a spawn wait an event for an unseen window whose app_id is that
\* of another application leaves the wait going and the Registry as it was; a
\* window so passed over enters the Registry only as a match, and a later
\* spawn for that app_id returns on the next event the window sends.
C21_PassedOverMatchesLater ==
    [][/\ (pc = "spawn_wait" /\ ReadsLine) =>
            /\ OtherApp(Head(stream), seen_windows, app) # {} =>
                 /\ pc' = "spawn_wait"
                 /\ matched' = NoMatch
                 /\ seen_windows' = seen_windows
            /\ (/\ Head(stream).kind = "WindowOpenedOrChanged"
                /\ <<EventId(Head(stream)), app>> \in passedOver
                /\ EventApp(Head(stream)) = app
                /\ EventId(Head(stream)) \notin seen_windows) =>
                 /\ pc' = "idle"
                 /\ matched' = EventId(Head(stream))
                 /\ seen_windows' = seen_windows \cup {EventId(Head(stream))}
       /\ \A p \in passedOver' :
            p[1] \in seen_windows' => p[1] \in credited']_vars

\* A spawn has returned on a window that an earlier spawn, waiting for another
\* application, had read about with this very app_id.
C21_Witness ==
    /\ pc = "idle"
    /\ matched \in Ids
    /\ <<matched, app>> \in passedOver
    /\ matched \notin reg0
    /\ matched \in seen_windows

\* C22: the bootstrap drain changes the Registry only on reading a
\* WindowsChanged event, and then by ids that event lists; a
\* WindowOpenedOrChanged event is taken off the stream with the Registry as it
\* was and the drain going on.  The drain dispatches nothing and connect never
\* returns with a match.
C22_DrainTakesSnapshotsOnly ==
    [][pc = "bootstrap" =>
         /\ seen_windows' # seen_windows =>
              /\ ReadsLine
              /\ Head(stream).kind = "WindowsChanged"
              /\ seen_windows' \ seen_windows \subseteq Listed(Head(stream))
         /\ (ReadsLine /\ Head(stream).kind = "WindowOpenedOrChanged") =>
              /\ stream' = Tail(stream)
              /\ seen_windows' = seen_windows
              /\ pc' = "bootstrap"
         /\ UNCHANGED <<calls, conns, sent, credited>>
         /\ matched' = NoMatch
         /\ pc' \in {"bootstrap", "idle"}]_vars

\* The drain has just read the event of an opened window, which carries a u64
\* id, and goes on with an empty Registry.
C22_Witness ==
    /\ pc = "bootstrap"
    /\ lastRead = "nested"
    /\ seen_windows = {}
    /\ matched = NoMatch
    /\ conns = 0

\* The drain ends in this step.
DrainEnds == pc = "bootstrap" /\ pc' = "idle"

\* The read of this step is one that ends the drain: it times out, fails, is at
\* the end of the stream or yields a blank line.
EndingRead ==
    \/ lastRead' \in {"timeout", "err", "eof"}
    \/ ReadsLine /\ Head(stream).kind = "blank"

====
